---- MODULE Spec2Model ----
(***************************************************************************)
(* Model of the Obsidian "Open in Terminal" plugin: the launch-command     *)
(* synthesizer (launcher.ts), the temporary script manager, the target     *)
(* registry (targets.ts), the settings model (settings.ts) and the plugin  *)
(* root that registers palette commands (main.ts).                         *)
(*                                                                         *)
(* A JavaScript string is a sequence of one-character strings, so that     *)
(* trim, toLowerCase, replace, includes and template concatenation are     *)
(* computed character by character as the code computes them.              *)
(***************************************************************************)
EXTENDS Integers, Sequences, FiniteSets, Bags, TLC

VARIABLES
  platform,        \* the host facts of obsidian's Platform object
  fs,              \* the file system below os.tmpdir(): directories and files
  call,            \* arguments of the latest buildLaunchCommand call
  result,          \* the LaunchCommand | null that call returned
  cleanupCalls,    \* how often result.cleanup was invoked
  cleanupThrew,    \* whether the latest result.cleanup invocation threw
  fn,              \* the settings.ts / targets.ts function applied last
  arg,             \* its arguments
  ret,             \* its return value, once it returned
  commandsApi,     \* whether the host's app.commands has findCommand/removeCommand
  stored,          \* the settings blob of the persistence store (data.json)
  phase,           \* "constructed" before onload, "loaded" after it
  settings,        \* this.settings of the plugin
  registeredCommandIds,  \* the plugin's set of identifiers it registered
  palette,         \* the identifiers registered in the host's palette
  pendingSaves,    \* saveSettings calls that still await saveData
  adapter,         \* this.app.vault.adapter
  logger,          \* the logger object: its enabled flag
  launches         \* one record per palette command invocation, in order

vars ==
  <<platform, fs, call, result, cleanupCalls, cleanupThrew, fn, arg, ret,
    commandsApi, stored, phase, settings, registeredCommandIds, palette,
    pendingSaves, adapter, logger, launches>>

----------------------------------------------------------------------------
(* Bounds *)

\* number of distinct names mkdtempSync can hand out
MaxTempDirs == 2

\* number of times one cleanup closure is invoked
MaxCleanupCalls == 2

\* number of boolean fields present in a stored settings object
MaxStoredFlags == 2

\* number of saveSettings calls awaiting saveData at the same time
MaxPendingSaves == 2

\* number of palette command invocations
MaxLaunches == 2

----------------------------------------------------------------------------
(* String literals of the source, character by character *)

\* part_002:72,84  `open -na "`
LitOpenNa ==
  <<"o", "p", "e", "n", " ", "-", "n", "a", " ", "\"">>

\* part_002:72,84  `" "` between the two quoted arguments
LitQuoteSpaceQuote ==
  <<"\"", " ", "\"">>

\* a closing double quote
LitQuote ==
  <<"\"">>

\* part_002:78  '#!/bin/bash'
LitShebang ==
  <<"#", "!", "/", "b", "i", "n", "/", "b", "a", "s", "h">>

\* part_002:78  `cd "`
LitCdQuote ==
  <<"c", "d", " ", "\"">>

\* part_002:82  'exec "$SHELL"'
LitExecShell ==
  <<"e", "x", "e", "c", " ", "\"", "$", "S", "H", "E", "L", "L", "\"">>

\* part_002:83  the '\n' separator of scriptLines.join
LitNewline ==
  <<"\n">>

\* part_002:44  'open-in-terminal-'
LitTempPrefix ==
  <<"o", "p", "e", "n", "-", "i", "n", "-", "t", "e", "r", "m", "i", "n",
    "a", "l", "-">>

\* part_002:45  'launch.command'
LitScriptName ==
  <<"l", "a", "u", "n", "c", "h", ".", "c", "o", "m", "m", "a", "n", "d">>

\* the separator path.join inserts
LitSlash ==
  <<"/">>

\* part_002:100  `cd /d "`
LitCdD ==
  <<"c", "d", " ", "/", "d", " ", "\"">>

\* part_002:101  ` && `
LitAndAnd ==
  <<" ", "&", "&", " ">>

\* part_002:107,108,144  `start "" cmd.exe /K "`
LitStartCmdK ==
  <<"s", "t", "a", "r", "t", " ", "\"", "\"", " ", "c", "m", "d", ".", "e",
    "x", "e", " ", "/", "K", " ", "\"">>

\* part_002:115,122  `start "" powershell -NoExit -Command "Set-Location '`
LitStartPowershell ==
  <<"s", "t", "a", "r", "t", " ", "\"", "\"", " ", "p", "o", "w", "e", "r",
    "s", "h", "e", "l", "l", " ", "-", "N", "o", "E", "x", "i", "t", " ",
    "-", "C", "o", "m", "m", "a", "n", "d", " ", "\"", "S", "e", "t", "-",
    "L", "o", "c", "a", "t", "i", "o", "n", " ", "'">>

\* part_002:118  `';"`
LitPsEndNoTool ==
  <<"'", ";", "\"">>

\* part_002:125  `'; `
LitPsSep ==
  <<"'", ";", " ">>

\* part_002:132,133  `start "" wt.exe new-tab cmd /K "`
LitStartWt ==
  <<"s", "t", "a", "r", "t", " ", "\"", "\"", " ", "w", "t", ".", "e", "x",
    "e", " ", "n", "e", "w", "-", "t", "a", "b", " ", "c", "m", "d", " ",
    "/", "K", " ", "\"">>

\* part_002:139  `start "" "`
LitStartQuote ==
  <<"s", "t", "a", "r", "t", " ", "\"", "\"", " ", "\"">>

\* part_002:105  'cmd.exe'
LitCmdExe ==
  <<"c", "m", "d", ".", "e", "x", "e">>

\* part_002:105  'cmd'
LitCmd ==
  <<"c", "m", "d">>

\* part_002:113  'powershell'
LitPowershell ==
  <<"p", "o", "w", "e", "r", "s", "h", "e", "l", "l">>

\* part_002:113  'powershell.exe'
LitPowershellExe ==
  <<"p", "o", "w", "e", "r", "s", "h", "e", "l", "l", ".", "e", "x", "e">>

\* part_002:130  'wt.exe'
LitWtExe ==
  <<"w", "t", ".", "e", "x", "e">>

\* part_002:130  'wt'
LitWt ==
  <<"w", "t">>

\* part_002:161  `cd "$PWD"; `
LitCdPwd ==
  <<"c", "d", " ", "\"", "$", "P", "W", "D", "\"", ";", " ">>

\* part_002:161  `; exec "$SHELL"`
LitSemiExecShell ==
  <<";", " ", "e", "x", "e", "c", " ", "\"", "$", "S", "H", "E", "L", "L",
    "\"">>

\* part_002:163  'gnome-terminal'
LitGnomeTerminal ==
  <<"g", "n", "o", "m", "e", "-", "t", "e", "r", "m", "i", "n", "a", "l">>

\* part_002:169  'konsole'
LitKonsole ==
  <<"k", "o", "n", "s", "o", "l", "e">>

\* part_002:164  ` -- bash -lc "`
LitDashDashBash ==
  <<" ", "-", "-", " ", "b", "a", "s", "h", " ", "-", "l", "c", " ", "\"">>

\* part_002:170,175  ` -e bash -lc "`
LitDashEBash ==
  <<" ", "-", "e", " ", "b", "a", "s", "h", " ", "-", "l", "c", " ", "\"">>

\* part_003:26  'Terminal'
LitTerminal ==
  <<"T", "e", "r", "m", "i", "n", "a", "l">>

\* part_003:32  'x-terminal-emulator'
LitXTerminalEmulator ==
  <<"x", "-", "t", "e", "r", "m", "i", "n", "a", "l", "-", "e", "m", "u",
    "l", "a", "t", "o", "r">>


----------------------------------------------------------------------------
(* Input strings the model draws from *)

\* application names a caller may pass
AppEmpty ==
  <<>>

\* whitespace only
AppBlank ==
  <<" ", "\t">>

\* padded with blanks
AppITermPadded ==
  <<" ", "i", "T", "e", "r", "m", " ">>

\* embedded double quote
AppQuoted ==
  <<"M", "y", "\"", "T">>

\* upper case
AppCmdExeUpper ==
  <<"C", "M", "D", ".", "E", "X", "E">>

\* mixed case
AppPowershellMixed ==
  <<"P", "o", "w", "e", "r", "S", "h", "e", "l", "l">>

\* leading blank
AppPowershellExe ==
  <<" ", "p", "o", "w", "e", "r", "s", "h", "e", "l", "l", ".", "e", "x", "e">>

\* mixed case
AppWtExeMixed ==
  <<"W", "t", ".", "E", "x", "e">>

\* no dedicated template on any platform
AppAlacritty ==
  <<"a", "l", "a", "c", "r", "i", "t", "t", "y">>

\* has cmd as a proper prefix
AppCmdLike ==
  <<"c", "m", "d", "x">>

\* gnome-terminal as a substring
AppGnomePath ==
  <<"/", "u", "s", "r", "/", "b", "i", "n", "/", "g", "n", "o", "m", "e",
    "-", "t", "e", "r", "m", "i", "n", "a", "l">>

\* trailing blank
AppKonsole ==
  <<"k", "o", "n", "s", "o", "l", "e", " ">>

\* contains both substrings
AppKonsoleGnome ==
  <<"k", "o", "n", "s", "o", "l", "e", "-", "g", "n", "o", "m", "e", "-",
    "t", "e", "r", "m", "i", "n", "a", "l">>

\* working directories
DirVault ==
  <<"/", "v", "a", "u", "l", "t">>

\* embedded double quote and apostrophe
DirQuoted ==
  <<"/", "a", "\"", "b", "'", "s">>

\* targets.ts:28  'claude'
LitClaude ==
  <<"c", "l", "a", "u", "d", "e">>

\* targets.ts:35  'codex'
LitCodex ==
  <<"c", "o", "d", "e", "x">>

\* targets.ts:42  'agent'
LitAgent ==
  <<"a", "g", "e", "n", "t">>

\* targets.ts:49  'gemini'
LitGemini ==
  <<"g", "e", "m", "i", "n", "i">>

\* targets.ts:56  'opencode'
LitOpencode ==
  <<"o", "p", "e", "n", "c", "o", "d", "e">>

\* os.tmpdir() of the host
LitTmp ==
  <<"/", "t", "m", "p">>


----------------------------------------------------------------------------
(* String primitives *)

\* characters String.prototype.trim removes
WhiteSpace == {" ", "\t", "\n", "\r"}

UpperCase ==
  <<"A", "B", "C", "D", "E", "F", "G", "H", "I", "J", "K", "L", "M",
    "N", "O", "P", "Q", "R", "S", "T", "U", "V", "W", "X", "Y", "Z">>

LowerCase ==
  <<"a", "b", "c", "d", "e", "f", "g", "h", "i", "j", "k", "l", "m",
    "n", "o", "p", "q", "r", "s", "t", "u", "v", "w", "x", "y", "z">>

toLowerChar(c) ==
  IF \E i \in 1..Len(UpperCase) : UpperCase[i] = c
  THEN LowerCase[CHOOSE i \in 1..Len(UpperCase) : UpperCase[i] = c]
  ELSE c

\* a comparison that forgets to fold the case
toLowerCaseIdentity(s) == s

\* String.prototype.toLowerCase
toLowerCase(s) == [i \in 1..Len(s) |-> toLowerChar(s[i])]

RECURSIVE trimStart(_)
trimStart(s) ==
  IF s # <<>> /\ Head(s) \in WhiteSpace THEN trimStart(Tail(s)) ELSE s

RECURSIVE trimEnd(_)
trimEnd(s) ==
  IF s # <<>> /\ s[Len(s)] \in WhiteSpace
  THEN trimEnd(SubSeq(s, 1, Len(s) - 1))
  ELSE s

\* String.prototype.trim
trim(s) == trimEnd(trimStart(s))

\* String.prototype.replace(/c/g, rep) for a one-character pattern c
RECURSIVE replaceAll(_, _, _)
replaceAll(s, c, rep) ==
  IF s = <<>> THEN <<>>
  ELSE (IF Head(s) = c THEN rep ELSE <<Head(s)>>) \o replaceAll(Tail(s), c, rep)

\* a substring test that only looks at the start of the string
includesAtStart(s, needle) ==
  Len(needle) <= Len(s) /\ SubSeq(s, 1, Len(needle)) = needle

\* String.prototype.includes
includes(s, needle) ==
  \E i \in 1..(Len(s) - Len(needle) + 1) :
    SubSeq(s, i, i + Len(needle) - 1) = needle

\* String.prototype.startsWith
startsWith(s, prefix) ==
  Len(prefix) <= Len(s) /\ SubSeq(s, 1, Len(prefix)) = prefix

\* Array.prototype.join
RECURSIVE joinLines(_, _)
joinLines(lines, sep) ==
  IF lines = <<>> THEN <<>>
  ELSE IF Len(lines) = 1 THEN lines[1]
  ELSE lines[1] \o sep \o joinLines(Tail(lines), sep)

\* path.join of two segments
join(a, b) == a \o LitSlash \o b

----------------------------------------------------------------------------
(* Platform classifier: the facts of obsidian's Platform object *)

PlatformFacts(desktop, mac, win, linux) ==
  [isDesktopApp |-> desktop, isMacOS |-> mac, isWin |-> win, isLinux |-> linux]

DesktopMac == PlatformFacts(TRUE, TRUE, FALSE, FALSE)

DesktopWin == PlatformFacts(TRUE, FALSE, TRUE, FALSE)

DesktopLinux == PlatformFacts(TRUE, FALSE, FALSE, TRUE)

\* a desktop build that is none of the three (getPlatformSummary's
\* 'desktop-unknown', e.g. a BSD desktop)
DesktopOther == PlatformFacts(TRUE, FALSE, FALSE, FALSE)

\* iOS/iPadOS reports isMacOS although it is not a desktop app
MobileIos == PlatformFacts(FALSE, TRUE, FALSE, FALSE)

MobileAndroid == PlatformFacts(FALSE, FALSE, FALSE, FALSE)

Platforms ==
  {DesktopMac, DesktopWin, DesktopLinux, DesktopOther, MobileIos, MobileAndroid}

----------------------------------------------------------------------------
(* Values of the launcher *)

\* toolCommand?: string
NoTool == [present |-> FALSE, v |-> <<>>]

Tool(s) == [present |-> TRUE, v |-> s]

\* a test that takes every toolCommand, also an absent one, as present
truthyAlways(t) == TRUE

\* JavaScript truthiness of an optional string
truthy(t) == t.present /\ t.v # <<>>

\* cleanup?: () => void ; the closure captures the directory it removes
NoCleanup == [present |-> FALSE, dir |-> <<>>]

CleanupOf(dir) == [present |-> TRUE, dir |-> dir]

\* LaunchCommand | null
NullCommand == [null |-> TRUE, command |-> <<>>, cleanup |-> NoCleanup]

LaunchCommand(command, cleanup) ==
  [null |-> FALSE, command |-> command, cleanup |-> cleanup]

\* no call of buildLaunchCommand was made yet
NoCall == [made |-> FALSE, app |-> <<>>, dir |-> <<>>, tool |-> NoTool]

\* a build step returns the command and the file system it leaves behind
Built(files, cmd) == [fs |-> files, cmd |-> cmd]

----------------------------------------------------------------------------
(* Temporary script manager *)

EmptyFs == [dirs |-> {}, files |-> <<>>]

SuffixChars == <<"a", "b", "c", "d", "e", "f">>

\* the random suffixes mkdtempSync may append
Suffixes == {<<SuffixChars[i]>> : i \in 1..MaxTempDirs}

\* mkdtempSync(prefix): the directory prefix + suffix, which must be new
mkdtempSync(files, prefix, suffix) ==
  [dir |-> prefix \o suffix,
   fs |-> [files EXCEPT !.dirs = @ \cup {prefix \o suffix}]]

\* writeFileSync(path, content)
writeFileSync(files, path, content) ==
  [files EXCEPT !.files =
     [p \in (DOMAIN @) \cup {path} |-> IF p = path THEN content ELSE @[p]]]

\* rmSync(dir, { recursive: true, force }): removes dir and all below it;
\* a missing dir throws unless force is set
rmSync(files, dir, force) ==
  IF dir \in files.dirs
  THEN [fs |-> [dirs |-> files.dirs \ {dir},
                files |-> [p \in {q \in DOMAIN files.files :
                                    ~startsWith(q, dir \o LitSlash)}
                           |-> files.files[p]]],
        threw |-> FALSE]
  ELSE [fs |-> files, threw |-> ~force]

\* a cleanup that lets the error of a non-forced rmSync escape
cleanupUnguarded(files, dir) ==
  LET r == rmSync(files, dir, FALSE)
  IN [fs |-> r.fs, warned |-> FALSE, threw |-> r.threw]

\* the cleanup closure of ensureTempScript: try { rmSync } catch { warn }
cleanup(files, dir) ==
  LET r == rmSync(files, dir, TRUE)
  IN [fs |-> r.fs, warned |-> r.threw, threw |-> FALSE]

\* a script manager that returns a path outside the directory it made
ensureTempScriptElsewhere(files, suffix, content) ==
  LET made == mkdtempSync(files, join(LitTmp, LitTempPrefix), suffix)
      filePath == join(made.dir, LitScriptName)
  IN [fs |-> writeFileSync(made.fs, filePath, content),
      path |-> join(LitTmp, LitScriptName),
      cleanup |-> CleanupOf(made.dir)]

ensureTempScript(files, suffix, content) ==
  LET made == mkdtempSync(files, join(LitTmp, LitTempPrefix), suffix)
      filePath == join(made.dir, LitScriptName)
  IN [fs |-> writeFileSync(made.fs, filePath, content),
      path |-> filePath,
      cleanup |-> CleanupOf(made.dir)]

----------------------------------------------------------------------------
(* Command synthesizer *)

\* sanitizing that forgets to trim
sanitizeNoTrim(value) == value

sanitizeTerminalApp(value) == trim(value)

escapeDoubleQuotes(value) == replaceAll(value, "\"", <<"\\", "\"">>)

buildMacLaunch(files, suffix, terminalApp, vaultPath, toolCommand) ==
  LET app == sanitizeTerminalApp(terminalApp)
      escapedVaultPath == escapeDoubleQuotes(vaultPath)
      scriptLines ==
        <<LitShebang, LitCdQuote \o escapedVaultPath \o LitQuote>>
          \o (IF truthy(toolCommand) THEN <<toolCommand.v>> ELSE <<>>)
          \o <<LitExecShell>>
      script == ensureTempScript(files, suffix, joinLines(scriptLines, LitNewline))
  IN IF app = <<>> THEN Built(files, NullCommand)
     ELSE IF ~truthy(toolCommand)
     THEN Built(files,
                LaunchCommand(LitOpenNa \o escapeDoubleQuotes(app)
                                \o LitQuoteSpaceQuote
                                \o escapeDoubleQuotes(vaultPath) \o LitQuote,
                              NoCleanup))
     ELSE Built(script.fs,
                LaunchCommand(LitOpenNa \o escapeDoubleQuotes(app)
                                \o LitQuoteSpaceQuote \o script.path \o LitQuote,
                              script.cleanup))

buildWindowsLaunch(terminalApp, vaultPath, toolCommand) ==
  LET app == sanitizeTerminalApp(terminalApp)
      escapedVault == replaceAll(vaultPath, "\"", <<"\"">>)
      cdCommand == LitCdD \o escapedVault \o LitQuote
      tool == IF truthy(toolCommand) THEN LitAndAnd \o toolCommand.v ELSE <<>>
      lowerApp == toLowerCase(app)
      psLocation == replaceAll(vaultPath, "'", <<"'", "'">>)
  IN IF app = <<>> THEN NullCommand
     ELSE IF lowerApp = LitCmdExe \/ lowerApp = LitCmd
     THEN LaunchCommand(
            IF truthy(toolCommand)
            THEN LitStartCmdK \o cdCommand \o tool \o LitQuote
            ELSE LitStartCmdK \o cdCommand \o LitQuote,
            NoCleanup)
     ELSE IF lowerApp = LitPowershell \/ lowerApp = LitPowershellExe
     THEN LaunchCommand(
            IF ~truthy(toolCommand)
            THEN LitStartPowershell \o psLocation \o LitPsEndNoTool
            ELSE LitStartPowershell \o psLocation \o LitPsSep
                   \o toolCommand.v \o LitQuote,
            NoCleanup)
     ELSE IF lowerApp = LitWtExe \/ lowerApp = LitWt
     THEN LaunchCommand(
            IF truthy(toolCommand)
            THEN LitStartWt \o cdCommand \o tool \o LitQuote
            ELSE LitStartWt \o cdCommand \o LitQuote,
            NoCleanup)
     ELSE IF ~truthy(toolCommand)
     THEN LaunchCommand(LitStartQuote \o app \o LitQuote, NoCleanup)
     ELSE LaunchCommand(LitStartCmdK \o cdCommand \o tool \o LitQuote, NoCleanup)

buildUnixLaunch(terminalApp, toolCommand) ==
  LET app == sanitizeTerminalApp(terminalApp)
      shellCommand == LitCdPwd \o toolCommand.v \o LitSemiExecShell
  IN IF app = <<>> THEN NullCommand
     ELSE IF ~truthy(toolCommand) THEN LaunchCommand(app, NoCleanup)
     ELSE IF includes(app, LitGnomeTerminal)
     THEN LaunchCommand(app \o LitDashDashBash \o shellCommand \o LitQuote,
                        NoCleanup)
     ELSE IF includes(app, LitKonsole)
     THEN LaunchCommand(app \o LitDashEBash \o shellCommand \o LitQuote,
                        NoCleanup)
     ELSE LaunchCommand(app \o LitDashEBash \o shellCommand \o LitQuote,
                        NoCleanup)

buildLaunchCommand(p, files, suffix, terminalApp, vaultPath, toolCommand) ==
  IF ~p.isDesktopApp THEN Built(files, NullCommand)
  ELSE IF p.isMacOS
  THEN buildMacLaunch(files, suffix, terminalApp, vaultPath, toolCommand)
  ELSE IF p.isWin
  THEN Built(files, buildWindowsLaunch(terminalApp, vaultPath, toolCommand))
  ELSE Built(files, buildUnixLaunch(terminalApp, toolCommand))

----------------------------------------------------------------------------
(* Target registry (targets.ts) *)

\* settingKey?: absent for the open-terminal target
NoKey == "none"

OptionalTargetSettingKeys ==
  {"enableClaude", "enableCodex", "enableCursor", "enableGemini",
   "enableOpencode"}

LaunchTarget(id, commandName, toolCommand, settingKey) ==
  [id |-> id, commandName |-> commandName, toolCommand |-> toolCommand,
   settingKey |-> settingKey]

optionalLaunchTargets ==
  <<LaunchTarget("open-claude", "Open in Claude Code", Tool(LitClaude),
                 "enableClaude"),
    LaunchTarget("open-codex", "Open in Codex cli", Tool(LitCodex),
                 "enableCodex"),
    LaunchTarget("open-cursor", "Open in Cursor cli", Tool(LitAgent),
                 "enableCursor"),
    LaunchTarget("open-gemini", "Open in Gemini cli", Tool(LitGemini),
                 "enableGemini"),
    LaunchTarget("open-opencode", "Open in OpenCode", Tool(LitOpencode),
                 "enableOpencode")>>

launchTargets ==
  <<LaunchTarget("open-terminal", "Open in terminal", NoTool, NoKey)>>
    \o optionalLaunchTargets

\* a gate that lets every target through
isTargetEnabledAlways(cfg, target) == TRUE

isTargetEnabled(cfg, target) ==
  IF target.settingKey = NoKey THEN TRUE ELSE cfg[target.settingKey]

----------------------------------------------------------------------------
(* Settings model (settings.ts) *)

\* a value of type unknown, as loadData may return it
JsValue(t, b, s, o) == [t |-> t, b |-> b, s |-> s, o |-> o]

NoFields == [k \in {} |-> 0]

JsUndefined == JsValue("undefined", FALSE, <<>>, NoFields)

JsNull == JsValue("null", FALSE, <<>>, NoFields)

JsNumber == JsValue("number", FALSE, <<>>, NoFields)

JsBoolean(b) == JsValue("boolean", b, <<>>, NoFields)

JsString(s) == JsValue("string", FALSE, s, NoFields)

\* an array: typeof gives 'object', and it has none of the named fields
JsArray == JsValue("array", FALSE, <<>>, NoFields)

JsObject(o) == JsValue("object", FALSE, <<>>, o)

\* value.key: undefined when the key is missing
field(value, key) ==
  IF key \in DOMAIN value.o THEN value.o[key] ELSE JsUndefined

\* DesktopPlatform | null
NoDesktopPlatform == "null"

DesktopPlatforms == {"win", "macos", "linux"}

defaultTerminalApp(p) ==
  IF ~p.isDesktopApp THEN <<>>
  ELSE IF p.isMacOS THEN LitTerminal
  ELSE IF p.isWin THEN LitCmdExe
  ELSE IF p.isLinux THEN LitXTerminalEmulator
  ELSE <<>>

getCurrentDesktopPlatform(p) ==
  IF ~p.isDesktopApp THEN NoDesktopPlatform
  ELSE IF p.isMacOS THEN "macos"
  ELSE IF p.isWin THEN "win"
  ELSE IF p.isLinux THEN "linux"
  ELSE NoDesktopPlatform

\* { [platform]: app }
OneSlot(slot, app) == [k \in {slot} |-> app]

\* { ...terminalApp, [platform]: app }
WithSlot(terminalApp, slot, app) ==
  [k \in (DOMAIN terminalApp) \cup {slot} |->
     IF k = slot THEN app ELSE terminalApp[k]]

buildDefaultTerminalAppSetting(p) ==
  IF getCurrentDesktopPlatform(p) = NoDesktopPlatform THEN NoFields
  ELSE OneSlot(getCurrentDesktopPlatform(p), defaultTerminalApp(p))

DEFAULT_SETTINGS(p) ==
  [terminalApp |-> buildDefaultTerminalAppSetting(p),
   enableClaude |-> FALSE,
   enableCodex |-> FALSE,
   enableCursor |-> FALSE,
   enableGemini |-> FALSE,
   enableOpencode |-> FALSE,
   enableWslOnWindows |-> FALSE]

\* typeof value === 'object' && value !== null: an array passes too
isRecord(value) == value.t \in {"object", "array"}

\* a migration that forgets to trim the legacy bare string
normalizeTerminalAppSettingUntrimmed(p, value, fallback) ==
  IF value.t = "string"
  THEN IF getCurrentDesktopPlatform(p) = NoDesktopPlatform THEN fallback
       ELSE OneSlot(getCurrentDesktopPlatform(p), value.s)
  ELSE IF isRecord(value)
  THEN [k \in {q \in DesktopPlatforms : field(value, q).t = "string"} |->
          trim(field(value, k).s)]
  ELSE fallback

normalizeTerminalAppSetting(p, value, fallback) ==
  IF value.t = "string"
  THEN IF getCurrentDesktopPlatform(p) = NoDesktopPlatform THEN fallback
       ELSE OneSlot(getCurrentDesktopPlatform(p), trim(value.s))
  ELSE IF isRecord(value)
  THEN [k \in {q \in DesktopPlatforms : field(value, q).t = "string"} |->
          trim(field(value, k).s)]
  ELSE fallback

\* a reader that coerces any defined value to a boolean
readBooleanCoercing(value, fallback) ==
  IF value.t = "boolean" THEN value.b
  ELSE IF value.t \in {"undefined", "null"} THEN fallback
  ELSE TRUE

readBoolean(value, fallback) ==
  IF value.t = "boolean" THEN value.b ELSE fallback

\* a migration that copies the legacy bare string to every platform
normalizeSettingsLegacyEverywhere(p, data) ==
  LET source == IF isRecord(data) THEN data ELSE JsObject(NoFields)
  IN [terminalApp |->
        IF field(source, "terminalApp").t = "string"
        THEN [k \in DesktopPlatforms |-> trim(field(source, "terminalApp").s)]
        ELSE normalizeTerminalAppSetting(p, field(source, "terminalApp"),
                                         DEFAULT_SETTINGS(p).terminalApp),
      enableClaude |->
        readBoolean(field(source, "enableClaude"),
                    DEFAULT_SETTINGS(p).enableClaude),
      enableCodex |->
        readBoolean(field(source, "enableCodex"),
                    DEFAULT_SETTINGS(p).enableCodex),
      enableCursor |->
        readBoolean(field(source, "enableCursor"),
                    DEFAULT_SETTINGS(p).enableCursor),
      enableGemini |->
        readBoolean(field(source, "enableGemini"),
                    DEFAULT_SETTINGS(p).enableGemini),
      enableOpencode |->
        readBoolean(field(source, "enableOpencode"),
                    DEFAULT_SETTINGS(p).enableOpencode),
      enableWslOnWindows |->
        readBoolean(field(source, "enableWslOnWindows"),
                    DEFAULT_SETTINGS(p).enableWslOnWindows)]

normalizeSettings(p, data) ==
  LET source == IF isRecord(data) THEN data ELSE JsObject(NoFields)
  IN [terminalApp |->
        normalizeTerminalAppSetting(p, field(source, "terminalApp"),
                                    DEFAULT_SETTINGS(p).terminalApp),
      enableClaude |->
        readBoolean(field(source, "enableClaude"),
                    DEFAULT_SETTINGS(p).enableClaude),
      enableCodex |->
        readBoolean(field(source, "enableCodex"),
                    DEFAULT_SETTINGS(p).enableCodex),
      enableCursor |->
        readBoolean(field(source, "enableCursor"),
                    DEFAULT_SETTINGS(p).enableCursor),
      enableGemini |->
        readBoolean(field(source, "enableGemini"),
                    DEFAULT_SETTINGS(p).enableGemini),
      enableOpencode |->
        readBoolean(field(source, "enableOpencode"),
                    DEFAULT_SETTINGS(p).enableOpencode),
      enableWslOnWindows |->
        readBoolean(field(source, "enableWslOnWindows"),
                    DEFAULT_SETTINGS(p).enableWslOnWindows)]

getCurrentTerminalApp(p, terminalApp) ==
  IF getCurrentDesktopPlatform(p) = NoDesktopPlatform THEN <<>>
  ELSE IF getCurrentDesktopPlatform(p) \in DOMAIN terminalApp
  THEN terminalApp[getCurrentDesktopPlatform(p)]
  ELSE <<>>

\* a setter that keeps the current slot only
setCurrentTerminalAppOnly(p, terminalApp, value) ==
  IF getCurrentDesktopPlatform(p) = NoDesktopPlatform THEN terminalApp
  ELSE OneSlot(getCurrentDesktopPlatform(p), trim(value))

setCurrentTerminalApp(p, terminalApp, value) ==
  IF getCurrentDesktopPlatform(p) = NoDesktopPlatform THEN terminalApp
  ELSE WithSlot(terminalApp, getCurrentDesktopPlatform(p), trim(value))

\* an OpenInTerminalSettings object seen as a value of type unknown
asUnknown(cfg) ==
  JsObject(
    [k \in DOMAIN cfg |->
       IF k = "terminalApp"
       THEN JsObject([q \in DOMAIN cfg.terminalApp |->
                        JsString(cfg.terminalApp[q])])
       ELSE JsBoolean(cfg[k])])

----------------------------------------------------------------------------
(* Plugin root (main.ts): palette registration *)

\* this.manifest.id
ManifestId == "manifest.id"

\* `${this.manifest.id}:${target.id}`, the identifier the host registers
FullId(id) == <<ManifestId, id>>

\* the identifiers refreshCommands passes to addCommand
EnabledIds(s) ==
  {FullId(launchTargets[i].id) :
     i \in {j \in 1..Len(launchTargets) : isTargetEnabled(s, launchTargets[j])}}

\* resolveCommandManager: the host's commands object if it has findCommand
\* and removeCommand, else null
resolveCommandManager(api) == api

\* refreshCommands: remove what was registered (if the host allows it),
\* clear the set, add a command for every enabled target
refreshCommands(s, registered, commands, api) ==
  LET afterRemoval ==
        IF resolveCommandManager(api)
        THEN commands \ {id \in registered : id \in commands}
        ELSE commands
  IN [palette |-> afterRemoval \cup EnabledIds(s),
      registeredCommandIds |-> EnabledIds(s)]

----------------------------------------------------------------------------
(* Logger (logger.ts) *)

\* the logger object as the module creates it: enabled: false
LoggerOff == [enabled |-> FALSE]

\* logger.setEnabled(value)
setEnabled(lg, value) == [lg EXCEPT !.enabled = value]

\* an entry of the trace of one invocation: what was called, with which text
Ev(kind, text) == [kind |-> kind, text |-> text]

\* logger.log(message): console.debug if enabled, nothing otherwise
log(lg, message) ==
  IF lg.enabled THEN <<Ev("console.debug", <<message>>)>> ELSE <<>>

----------------------------------------------------------------------------
(* Plugin root (main.ts): running a palette command *)

\* an adapter that is a FileSystemAdapter, with its getBasePath()
FileSystemAdapter(basePath) ==
  [isFileSystemAdapter |-> TRUE, basePath |-> basePath]

\* any other adapter
OtherAdapter == [isFileSystemAdapter |-> FALSE, basePath |-> <<>>]

\* new Notice(text); a template literal is kept as the tuple of its parts
Notice(text) == Ev("Notice", text)

\* `Unable to run ${label}. Check the open in terminal settings ...`
UnableToRun(label) ==
  <<"Unable to run ", label,
    ". Check the open in terminal settings for the terminal application name.">>

\* `Failed to run ${label}. Check the developer console for details.`
FailedToRun(label) ==
  <<"Failed to run ", label, ". Check the developer console for details.">>

AdapterNotAvailable ==
  <<"File system adapter not available. This plugin works only on desktop.">>

\* what spawn may do: return a child, or throw
SpawnOutcomes == {"returns", "throws"}

\* composeLaunchCommand: null without a FileSystemAdapter; otherwise the
\* command of buildLaunchCommand for the current platform's application and
\* the vault's base path. The fourth argument of the call,
\* { useWslOnWindows: this.settings.enableWslOnWindows }, has no parameter
\* in buildLaunchCommand and is dropped.
composeLaunchCommand(p, adp, cfg, lg, files, suffix, toolCommand) ==
  IF ~adp.isFileSystemAdapter
  THEN [fs |-> files, cmd |-> NullCommand, events |-> <<>>]
  ELSE LET b == buildLaunchCommand(p, files, suffix,
                                   getCurrentTerminalApp(p, cfg.terminalApp),
                                   adp.basePath, toolCommand)
       IN [fs |-> b.fs, cmd |-> b.cmd,
           events |-> log(lg, "Compose launch command")]

\* the outcome of running a command: the trace, the state of the cleanup
\* timer and of the child's error listener, and whether an error escaped
Ran(events, timer, child, thrown) ==
  [events |-> events, timer |-> timer, child |-> child, thrown |-> thrown]

\* a try block without its catch clause
trySpawnUncaught(lg, launchCommand, label, outcome) ==
  IF outcome = "throws"
  THEN Ran(log(lg, "Spawning command")
             \o <<Ev("spawn", launchCommand.command)>>,
           "none", "none", TRUE)
  ELSE Ran(log(lg, "Spawning command")
             \o <<Ev("spawn", launchCommand.command)>>
             \o log(lg, "Spawned command successfully"),
           "none", "listening", FALSE)

\* the try and catch blocks of executeShellCommand
trySpawn(lg, launchCommand, label, outcome) ==
  IF outcome = "throws"
  THEN Ran(log(lg, "Spawning command")
             \o <<Ev("spawn", launchCommand.command),
                  Ev("console.error", <<>>),
                  Notice(FailedToRun(label))>>,
           "none", "none", FALSE)
  ELSE Ran(log(lg, "Spawning command")
             \o <<Ev("spawn", launchCommand.command)>>
             \o log(lg, "Spawned command successfully"),
           "none", "listening", FALSE)

\* a finally block that sets the timer whether or not there is a cleanup
finallyScheduleAlways(launchCommand) ==
  Ran(<<Ev("setTimeout", <<>>)>>, "armed", "none", FALSE)

\* the finally block of executeShellCommand
finallySchedule(launchCommand) ==
  IF launchCommand.cleanup.present
  THEN Ran(<<Ev("setTimeout", <<>>)>>, "armed", "none", FALSE)
  ELSE Ran(<<>>, "none", "none", FALSE)

\* an executor that tries once more after spawn threw
executeShellCommandRetrying(adp, lg, launchCommand, label, outcome) ==
  IF ~adp.isFileSystemAdapter
  THEN Ran(<<Notice(AdapterNotAvailable)>>, "none", "none", FALSE)
  ELSE LET t == trySpawn(lg, launchCommand, label, outcome)
           again == IF outcome = "throws"
                    THEN trySpawn(lg, launchCommand, label, "returns")
                    ELSE Ran(<<>>, "none", t.child, FALSE)
           f == finallySchedule(launchCommand)
       IN Ran(t.events \o again.events \o f.events, f.timer, again.child,
              t.thrown)

executeShellCommand(adp, lg, launchCommand, label, outcome) ==
  IF ~adp.isFileSystemAdapter
  THEN Ran(<<Notice(AdapterNotAvailable)>>, "none", "none", FALSE)
  ELSE LET t == trySpawn(lg, launchCommand, label, outcome)
           f == finallySchedule(launchCommand)
       IN Ran(t.events \o f.events, f.timer, t.child, t.thrown)

\* a runner that returns silently when there is no command
runLaunchCommandSilent(adp, lg, launchCommand, label, outcome) ==
  IF launchCommand.null
  THEN Ran(<<>>, "none", "none", FALSE)
  ELSE executeShellCommand(adp, lg, launchCommand, label, outcome)

\* runLaunchCommand, given what buildCommand() returned
runLaunchCommand(adp, lg, launchCommand, label, outcome) ==
  IF launchCommand.null
  THEN Ran(<<Notice(UnableToRun(label))>>, "none", "none", FALSE)
  ELSE executeShellCommand(adp, lg, launchCommand, label, outcome)

\* the listener of the child's error event
childOnError(label) ==
  <<Ev("console.error", <<>>), Notice(FailedToRun(label))>>

\* the callback given to setTimeout: try { cleanup() } catch { warn }
timerCallback(files, dir) ==
  LET r == cleanup(files, dir)
  IN [fs |-> r.fs,
      events |-> <<Ev("cleanup", <<>>)>>
                   \o IF r.threw THEN <<Ev("console.warn", <<>>)>> ELSE <<>>]

\* no palette command was invoked
NoLaunches ==
  /\ adapter = FileSystemAdapter(DirVault)
  /\ logger = LoggerOff
  /\ launches = <<>>

pluginVars ==
  <<commandsApi, stored, phase, settings, registeredCommandIds, palette,
    pendingSaves, adapter, logger, launches>>

\* the plugin is not instantiated
PluginIdle ==
  /\ commandsApi = TRUE
  /\ stored = JsUndefined
  /\ phase = "none"
  /\ settings = DEFAULT_SETTINGS(platform)
  /\ registeredCommandIds = {}
  /\ palette = {}
  /\ pendingSaves = 0
  /\ NoLaunches

NoFn == "none"

NotReturned == [done |-> FALSE]

Returned(v) == [done |-> TRUE, v |-> v]

\* buildLaunchCommand was not called
LauncherIdle ==
  /\ fs = EmptyFs
  /\ call = NoCall
  /\ result = NullCommand
  /\ cleanupCalls = 0
  /\ cleanupThrew = FALSE

\* no settings.ts function is being applied
SettingsIdle == fn = NoFn /\ arg = <<>> /\ ret = NotReturned

----------------------------------------------------------------------------
(* Arguments the synthesizer is applied to *)

Apps ==
  {AppEmpty, AppBlank, AppITermPadded, AppQuoted, AppCmdExeUpper,
   AppPowershellMixed, AppPowershellExe, AppWtExeMixed, AppCmdLike,
   AppGnomePath, AppKonsole, AppKonsoleGnome, AppAlacritty}

Dirs == {DirVault, DirQuoted}

\* toolCommand arguments the synthesizer is applied to: none, and the first
\* and the last tool command of the target registry
Tools == {NoTool, Tool(LitClaude), Tool(LitOpencode)}

----------------------------------------------------------------------------
(* Specification of the command synthesizer: a caller applies              *)
(* buildLaunchCommand to arbitrary arguments and invokes the cleanup of    *)
(* the command it got.                                                     *)

InitLaunch ==
  /\ platform \in Platforms
  /\ fs = EmptyFs
  /\ call = NoCall
  /\ result = NullCommand
  /\ cleanupCalls = 0
  /\ cleanupThrew = FALSE
  /\ SettingsIdle
  /\ PluginIdle

\* a mkdtempSync that may hand out the name of an existing directory
AnySuffixes(files) == Suffixes

\* the names mkdtempSync has not handed out to a directory that still exists
FreshSuffixes(files) ==
  {s \in Suffixes : (join(LitTmp, LitTempPrefix) \o s) \notin files.dirs}

CallBuildLaunchCommand(app, dir, tool) ==
  \E suffix \in Suffixes :
    LET b == buildLaunchCommand(platform, fs, suffix, app, dir, tool)
    IN /\ b.cmd.cleanup.present => suffix \in FreshSuffixes(fs)
       /\ call' = [made |-> TRUE, app |-> app, dir |-> dir, tool |-> tool]
       /\ result' = b.cmd
       /\ fs' = b.fs
       /\ cleanupCalls' = 0
       /\ cleanupThrew' = FALSE
       /\ UNCHANGED <<platform, fn, arg, ret>>
       /\ UNCHANGED pluginVars

BuildStep ==
  \E app \in Apps, dir \in Dirs, tool \in Tools :
    CallBuildLaunchCommand(app, dir, tool)

InvokeCleanup ==
  /\ ~result.null
  /\ result.cleanup.present
  /\ cleanupCalls < MaxCleanupCalls
  /\ LET r == cleanup(fs, result.cleanup.dir)
     IN /\ fs' = r.fs
        /\ cleanupThrew' = r.threw
  /\ cleanupCalls' = cleanupCalls + 1
  /\ UNCHANGED <<platform, call, result, fn, arg, ret>>
  /\ UNCHANGED pluginVars

\* a step that applied buildLaunchCommand / invoked the cleanup
IsBuildStep == call'.made /\ cleanupCalls' = 0

IsCleanupStep == cleanupCalls' = cleanupCalls + 1

NextLaunch == BuildStep \/ InvokeCleanup

SpecLaunch == InitLaunch /\ [][NextLaunch]_vars

----------------------------------------------------------------------------
(* Specification of the settings model and the target registry: the        *)
(* initial state holds one pending call with its arguments, the actions     *)
(* apply the function called.                                               *)

FlagKeys == OptionalTargetSettingKeys \cup {"enableWslOnWindows"}

\* what a stored boolean field may hold: a boolean or something else
StoredFlagOptions ==
  {JsBoolean(TRUE), JsBoolean(FALSE), JsString(<<"t", "r", "u", "e">>)}

\* what a stored platform slot may hold
StoredSlotOptions == {JsString(AppKonsole), JsNumber}

\* what the stored terminalApp field may hold
StoredTerminalAppOptions ==
  {JsNull, JsNumber, JsArray, JsString(AppEmpty), JsString(AppITermPadded)}
    \cup {JsObject(o) :
            o \in UNION {[S -> StoredSlotOptions] : S \in SUBSET DesktopPlatforms}}

\* stored objects with at most MaxStoredFlags boolean fields present
StoredFlagObjects ==
  UNION {[S -> StoredFlagOptions] :
           S \in {T \in SUBSET FlagKeys : Cardinality(T) <= MaxStoredFlags}}

StoredValues ==
  {JsUndefined, JsNull, JsNumber, JsArray, JsBoolean(TRUE),
   JsString(AppAlacritty)}
    \cup {JsObject(flags) : flags \in StoredFlagObjects}
    \cup {JsObject(flags @@ [k \in {"terminalApp"} |-> t]) :
            flags \in StoredFlagObjects, t \in StoredTerminalAppOptions}

\* TerminalAppByPlatform values the getter and the setter are applied to
TerminalAppValues ==
  UNION {[S -> {AppEmpty, AppAlacritty, AppKonsole}] :
           S \in SUBSET DesktopPlatforms}

\* all settings objects over one terminalApp mapping
SettingsValues ==
  {[terminalApp |-> NoFields, enableClaude |-> b[1], enableCodex |-> b[2],
    enableCursor |-> b[3], enableGemini |-> b[4], enableOpencode |-> b[5],
    enableWslOnWindows |-> b[6]] : b \in [1..6 -> BOOLEAN]}

InitSettings ==
  /\ platform \in Platforms
  /\ ret = NotReturned
  /\ \/ /\ fn = "normalizeSettings"
        /\ arg \in {[stored |-> x] : x \in StoredValues}
     \/ /\ fn = "getCurrentTerminalApp"
        /\ arg \in {[terminalApp |-> t] : t \in TerminalAppValues}
     \/ /\ fn = "setCurrentTerminalApp"
        /\ arg \in {[terminalApp |-> t, value |-> v] :
                      t \in TerminalAppValues,
                      v \in {AppEmpty, AppBlank, AppITermPadded, AppCmdExeUpper}}
     \/ /\ fn = "isTargetEnabled"
        /\ arg \in {[settings |-> s, target |-> launchTargets[i]] :
                      s \in SettingsValues, i \in 1..Len(launchTargets)}
  /\ LauncherIdle
  /\ PluginIdle

Return(v) ==
  /\ ret = NotReturned
  /\ ret' = Returned(v)
  /\ UNCHANGED <<platform, fs, call, result, cleanupCalls, cleanupThrew, fn, arg>>
  /\ UNCHANGED pluginVars

ApplyNormalizeSettings ==
  /\ fn = "normalizeSettings"
  /\ Return(normalizeSettings(platform, arg.stored))

ApplyGetCurrentTerminalApp ==
  /\ fn = "getCurrentTerminalApp"
  /\ Return(getCurrentTerminalApp(platform, arg.terminalApp))

ApplySetCurrentTerminalApp ==
  /\ fn = "setCurrentTerminalApp"
  /\ Return(setCurrentTerminalApp(platform, arg.terminalApp, arg.value))

ApplyIsTargetEnabled ==
  /\ fn = "isTargetEnabled"
  /\ Return(isTargetEnabled(arg.settings, arg.target))

NextSettings ==
  \/ ApplyNormalizeSettings
  \/ ApplyGetCurrentTerminalApp
  \/ ApplySetCurrentTerminalApp
  \/ ApplyIsTargetEnabled

SpecSettings == InitSettings /\ [][NextSettings]_vars

----------------------------------------------------------------------------
(* Specification of the plugin: onload, the settings tab's callbacks and   *)
(* saveSettings, whose saveData await lets saves overlap.                   *)

\* what data.json may hold when the plugin is loaded
InitialStored ==
  {JsUndefined,
   JsNull,
   JsObject([k \in {"terminalApp"} |-> JsString(AppITermPadded)]),
   JsObject([k \in {"terminalApp", "enableClaude", "enableGemini"} |->
               IF k = "terminalApp"
               THEN JsObject([q \in {"win", "linux"} |->
                                IF q = "win" THEN JsString(AppCmdExeUpper)
                                ELSE JsString(AppKonsole)])
               ELSE JsBoolean(TRUE)]),
   JsObject([k \in {"enableLogging", "enableCodex"} |-> JsBoolean(TRUE)])}

\* what the user types into the terminal application field
TypedApps == {AppEmpty, AppITermPadded}

Init ==
  /\ platform \in Platforms
  /\ commandsApi \in BOOLEAN
  /\ stored \in InitialStored
  /\ phase = "constructed"
  /\ settings = DEFAULT_SETTINGS(platform)
  /\ registeredCommandIds = {}
  /\ palette = {}
  /\ pendingSaves = 0
  /\ NoLaunches
  /\ LauncherIdle
  /\ SettingsIdle

Refresh(s) ==
  LET r == refreshCommands(s, registeredCommandIds, palette, commandsApi)
  IN /\ palette' = r.palette
     /\ registeredCommandIds' = r.registeredCommandIds

NotLaunching ==
  UNCHANGED <<platform, fs, call, result, cleanupCalls, cleanupThrew, fn, arg,
              ret, adapter, logger, launches>>

\* onload: loadSettings, addSettingTab, refreshCommands
Onload ==
  /\ phase = "constructed"
  /\ phase' = "loaded"
  /\ settings' = normalizeSettings(platform, stored)
  /\ Refresh(settings')
  /\ UNCHANGED <<commandsApi, stored, pendingSaves>>
  /\ NotLaunching

\* a settings-tab callback changed this.settings and called saveSettings,
\* which hands this.settings to saveData and awaits it
Changed(s) ==
  /\ phase = "loaded"
  /\ pendingSaves < MaxPendingSaves
  /\ settings' = s
  /\ pendingSaves' = pendingSaves + 1
  /\ stored' = asUnknown(s)
  /\ UNCHANGED <<commandsApi, phase, registeredCommandIds, palette>>
  /\ NotLaunching

\* the text field's onChange
ChangeTerminalApp(value) ==
  Changed([settings EXCEPT
             !.terminalApp = setCurrentTerminalApp(platform, @, value)])

\* the WSL toggle's onChange; the toggle exists on Windows only
ToggleWsl(value) ==
  /\ platform.isWin
  /\ Changed([settings EXCEPT !.enableWslOnWindows = value])

\* the onChange of an optional target's toggle
ToggleTarget(key, value) ==
  Changed([settings EXCEPT ![key] = value])

\* saveData resolved: saveSettings goes on to refreshCommands
SaveDataResolved ==
  /\ pendingSaves > 0
  /\ pendingSaves' = pendingSaves - 1
  /\ Refresh(settings)
  /\ UNCHANGED <<commandsApi, stored, phase, settings>>
  /\ NotLaunching

Next ==
  \/ Onload
  \/ \E value \in TypedApps : ChangeTerminalApp(value)
  \/ \E value \in BOOLEAN : ToggleWsl(value)
  \/ \E key \in OptionalTargetSettingKeys, value \in BOOLEAN :
       ToggleTarget(key, value)
  \/ SaveDataResolved

Spec == Init /\ [][Next]_vars

----------------------------------------------------------------------------
(* Specification of running palette commands: the plugin loads, the user   *)
(* invokes registered commands, children report errors and cleanup timers  *)
(* fire.                                                                   *)

\* the settings blobs the plugin runs with: nothing stored; every platform
\* with an application, Claude Code and the WSL toggle on; a stored name
\* that is blank
RunStored ==
  {JsUndefined,
   JsObject([k \in {"terminalApp", "enableClaude", "enableWslOnWindows"} |->
               IF k = "terminalApp"
               THEN JsObject([q \in DesktopPlatforms |->
                                IF q = "macos" THEN JsString(AppITermPadded)
                                ELSE IF q = "win"
                                THEN JsString(AppPowershellMixed)
                                ELSE JsString(AppGnomePath)])
               ELSE JsBoolean(TRUE)]),
   JsObject([k \in {"terminalApp", "enableClaude"} |->
               IF k = "terminalApp" THEN JsString(AppBlank)
               ELSE JsBoolean(TRUE)])}

Adapters == {OtherAdapter} \cup {FileSystemAdapter(d) : d \in Dirs}

InitRun ==
  /\ platform \in Platforms
  /\ commandsApi = TRUE
  /\ stored \in RunStored
  /\ phase = "constructed"
  /\ settings = DEFAULT_SETTINGS(platform)
  /\ registeredCommandIds = {}
  /\ palette = {}
  /\ pendingSaves = 0
  /\ adapter \in Adapters
  /\ logger = LoggerOff
  /\ launches = <<>>
  /\ LauncherIdle
  /\ SettingsIdle

\* the target whose command has this identifier
TargetOf(id) ==
  launchTargets[CHOOSE i \in 1..Len(launchTargets) : launchTargets[i].id = id]

\* the user invokes a registered command: its callback runs
\* runLaunchCommand(() => composeLaunchCommand(target.toolCommand),
\* target.commandName) to its end; outcome is what spawn does if it is
\* called
InvokeCommand(id) ==
  /\ phase = "loaded"
  /\ FullId(id) \in palette
  /\ Len(launches) < MaxLaunches
  /\ \E suffix \in Suffixes, outcome \in SpawnOutcomes :
       LET target == TargetOf(id)
           c == composeLaunchCommand(platform, adapter, settings, logger, fs,
                                     suffix, target.toolCommand)
           r == runLaunchCommand(adapter, logger, c.cmd, target.commandName,
                                 outcome)
       IN /\ c.cmd.cleanup.present => suffix \in FreshSuffixes(fs)
          /\ c.cmd.null => outcome = "returns"
          /\ fs' = c.fs
          /\ launches' =
               Append(launches,
                      [id |-> id, label |-> target.commandName,
                       command |-> c.cmd, outcome |-> outcome,
                       events |-> c.events \o r.events,
                       timer |-> r.timer, child |-> r.child,
                       thrown |-> r.thrown])
  /\ UNCHANGED <<platform, call, result, cleanupCalls, cleanupThrew, fn, arg,
                 ret, commandsApi, stored, phase, settings,
                 registeredCommandIds, palette, pendingSaves, adapter, logger>>

\* the child of launch i emits its error event
ChildError(i) ==
  /\ i \in 1..Len(launches)
  /\ launches[i].child = "listening"
  /\ launches' = [launches EXCEPT
                    ![i].child = "errored",
                    ![i].events = @ \o childOnError(launches[i].label)]
  /\ UNCHANGED <<platform, fs, call, result, cleanupCalls, cleanupThrew, fn,
                 arg, ret, commandsApi, stored, phase, settings,
                 registeredCommandIds, palette, pendingSaves, adapter, logger>>

\* the timer of launch i fires; timers of the same delay fire in the order
\* they were set
TimerFires(i) ==
  /\ i \in 1..Len(launches)
  /\ launches[i].timer = "armed"
  /\ \A j \in 1..(i - 1) : launches[j].timer # "armed"
  /\ LET r == timerCallback(fs, launches[i].command.cleanup.dir)
     IN /\ fs' = r.fs
        /\ launches' = [launches EXCEPT
                          ![i].timer = "fired",
                          ![i].events = @ \o r.events]
  /\ UNCHANGED <<platform, call, result, cleanupCalls, cleanupThrew, fn, arg,
                 ret, commandsApi, stored, phase, settings,
                 registeredCommandIds, palette, pendingSaves, adapter, logger>>

Invoke == \E t \in 1..Len(launchTargets) : InvokeCommand(launchTargets[t].id)

ChildErrors == \E i \in 1..MaxLaunches : ChildError(i)

TimersFire == \E i \in 1..MaxLaunches : TimerFires(i)

NextRun ==
  \/ Onload
  \/ Invoke
  \/ ChildErrors
  \/ TimersFire

SpecRun == InitRun /\ [][NextRun]_vars

\* the event loop runs a timer that is due
SpecRunFair == SpecRun /\ WF_vars(TimersFire)

----------------------------------------------------------------------------
(* Vocabulary of the claims, stated without the operators of the model *)

\* the name is empty after trimming: it holds nothing but white space
Blank(s) == \A i \in 1..Len(s) : s[i] \in WhiteSpace

\* the name without its leading and trailing white space
Core(s) ==
  IF Blank(s) THEN <<>>
  ELSE LET first == CHOOSE i \in 1..Len(s) :
                      s[i] \notin WhiteSpace /\ \A j \in 1..(i - 1) : s[j] \in WhiteSpace
           last == CHOOSE i \in 1..Len(s) :
                     s[i] \notin WhiteSpace /\ \A j \in (i + 1)..Len(s) : s[j] \in WhiteSpace
       IN SubSeq(s, first, last)

\* equal up to the case of letters
SameIgnoringCase(a, b) ==
  /\ Len(a) = Len(b)
  /\ \A i \in 1..Len(a) :
       \/ a[i] = b[i]
       \/ \E k \in 1..Len(UpperCase) : {a[i], b[i]} = {UpperCase[k], LowerCase[k]}

\* needle occurs somewhere in s
Occurs(needle, s) ==
  \E i \in 0..Len(s), j \in 0..Len(s) :
    /\ i <= j
    /\ [k \in 1..(j - i) |-> s[i + k]] = needle

\* every " of s preceded by a backslash, nothing else changed
RECURSIVE QuoteEscaped(_)
QuoteEscaped(s) ==
  IF s = <<>> THEN <<>>
  ELSE IF s[Len(s)] = "\""
  THEN QuoteEscaped(SubSeq(s, 1, Len(s) - 1)) \o <<"\\", "\"">>
  ELSE QuoteEscaped(SubSeq(s, 1, Len(s) - 1)) \o <<s[Len(s)]>>

\* every ' of s doubled, nothing else changed
RECURSIVE ApostropheDoubled(_)
ApostropheDoubled(s) ==
  IF s = <<>> THEN <<>>
  ELSE IF s[Len(s)] = "'"
  THEN ApostropheDoubled(SubSeq(s, 1, Len(s) - 1)) \o <<"'", "'">>
  ELSE ApostropheDoubled(SubSeq(s, 1, Len(s) - 1)) \o <<s[Len(s)]>>

\* the lines of a text: its pieces between the newline characters
RECURSIVE SplitLines(_)
SplitLines(text) ==
  IF \A i \in 1..Len(text) : text[i] # "\n" THEN <<text>>
  ELSE LET n == CHOOSE i \in 1..Len(text) :
                  text[i] = "\n" /\ \A j \in 1..(i - 1) : text[j] # "\n"
       IN <<SubSeq(text, 1, n - 1)>> \o SplitLines(SubSeq(text, n + 1, Len(text)))

\* the optional targets and the settings flag of each
OptionalIds ==
  {"open-claude", "open-codex", "open-cursor", "open-gemini", "open-opencode"}

FlagOf(id) ==
  CASE id = "open-claude" -> "enableClaude"
    [] id = "open-codex" -> "enableCodex"
    [] id = "open-cursor" -> "enableCursor"
    [] id = "open-gemini" -> "enableGemini"
    [] id = "open-opencode" -> "enableOpencode"

OnMac == platform.isDesktopApp /\ platform.isMacOS

OnWindows == platform.isDesktopApp /\ ~platform.isMacOS /\ platform.isWin

OnUnix == platform.isDesktopApp /\ ~platform.isMacOS /\ ~platform.isWin

\* C4: start "" cmd.exe /K "
ClaimCmdK ==
  <<"s", "t", "a", "r", "t", " ", "\"", "\"", " ", "c", "m", "d", ".", "e",
    "x", "e", " ", "/", "K", " ", "\"">>

\* C4: cd /d "
ClaimCdD ==
  <<"c", "d", " ", "/", "d", " ", "\"">>

\* C4: the && that chains the tool
ClaimAnd ==
  <<" ", "&", "&", " ">>

\* C4: start "" powershell -NoExit -Command "Set-Location '
ClaimPowershell ==
  <<"s", "t", "a", "r", "t", " ", "\"", "\"", " ", "p", "o", "w", "e", "r",
    "s", "h", "e", "l", "l", " ", "-", "N", "o", "E", "x", "i", "t", " ",
    "-", "C", "o", "m", "m", "a", "n", "d", " ", "\"", "S", "e", "t", "-",
    "L", "o", "c", "a", "t", "i", "o", "n", " ", "'">>

\* C4: '; after the location
ClaimPsClose ==
  <<"'", ";">>

\* C4: start "" wt.exe new-tab cmd /K "
ClaimWt ==
  <<"s", "t", "a", "r", "t", " ", "\"", "\"", " ", "w", "t", ".", "e", "x",
    "e", " ", "n", "e", "w", "-", "t", "a", "b", " ", "c", "m", "d", " ",
    "/", "K", " ", "\"">>

\* C4: start "" "
ClaimStart ==
  <<"s", "t", "a", "r", "t", " ", "\"", "\"", " ", "\"">>

\* C5: cd "$PWD"; 
ClaimCdPwd ==
  <<"c", "d", " ", "\"", "$", "P", "W", "D", "\"", ";", " ">>

\* C5: ; exec "$SHELL"
ClaimExecTail ==
  <<";", " ", "e", "x", "e", "c", " ", "\"", "$", "S", "H", "E", "L", "L",
    "\"">>

\* C5: -- bash -lc "
ClaimGnomeWrap ==
  <<" ", "-", "-", " ", "b", "a", "s", "h", " ", "-", "l", "c", " ", "\"">>

\* C5: -e bash -lc "
ClaimGenericWrap ==
  <<" ", "-", "e", " ", "b", "a", "s", "h", " ", "-", "l", "c", " ", "\"">>

\* C5: gnome-terminal
ClaimGnomeName ==
  <<"g", "n", "o", "m", "e", "-", "t", "e", "r", "m", "i", "n", "a", "l">>

\* C6: a shebang line starts with #!
ClaimShebang ==
  <<"#", "!">>

\* C6: cd "
ClaimCd ==
  <<"c", "d", " ", "\"">>

\* C6: exec "$SHELL"
ClaimExec ==
  <<"e", "x", "e", "c", " ", "\"", "$", "S", "H", "E", "L", "L", "\"">>

\* C6: open -na "
ClaimOpen ==
  <<"o", "p", "e", "n", " ", "-", "n", "a", " ", "\"">>

----------------------------------------------------------------------------
(* C1 .. C6: the command synthesizer *)

\* C1: buildLaunchCommand returns null whenever the platform is not a
\* desktop or the application name is empty after trimming white space,
\* whatever the platform, the working directory and the tool command.
C1_NullWhenNotLaunchable ==
  (call.made /\ (~platform.isDesktopApp \/ Blank(call.app))) => result.null

C1_Witness ==
  /\ call.made
  /\ platform.isDesktopApp
  /\ call.app # <<>>
  /\ Blank(call.app)
  /\ call.tool.present
  /\ result.null

\* C2 as stated: on every platform category and for every non-empty
\* application name, a call without tool command returns a command that is
\* not null and carries no cleanup, and creates no temporary script.
C2_Original ==
  [][(IsBuildStep /\ call'.app # <<>> /\ ~call'.tool.present)
       => (~result'.null /\ ~result'.cleanup.present /\ fs' = fs)]_vars

\* C2 amended: on every desktop platform category and for every application
\* name that is not empty after trimming, a call without tool command
\* returns a command that is not null and carries no cleanup, and creates no
\* temporary script.
C2_NoToolNoScript ==
  [][(IsBuildStep /\ platform.isDesktopApp /\ ~Blank(call'.app)
        /\ ~call'.tool.present)
       => (~result'.null /\ ~result'.cleanup.present /\ fs' = fs)]_vars

C2_Witness ==
  /\ call.made
  /\ OnMac
  /\ ~Blank(call.app)
  /\ ~call.tool.present
  /\ ~result.null
  /\ ~result.cleanup.present
  /\ fs.dirs = {}

\* C3 as stated: on macOS a call with a non-empty application name and a
\* tool command returns a command with a cleanup; the cleanup removes the
\* temporary directory; a second invocation throws nothing and changes
\* nothing.
C3_Original ==
  [][/\ (IsBuildStep /\ OnMac /\ call'.app # <<>> /\ call'.tool.present)
          => (~result'.null /\ result'.cleanup.present
                /\ result'.cleanup.dir \in fs'.dirs)
     /\ IsCleanupStep
          => (/\ ~cleanupThrew'
              /\ result.cleanup.dir \notin fs'.dirs
              /\ \A p \in DOMAIN fs'.files :
                   ~Occurs(result.cleanup.dir \o <<"/">>, p)
              /\ cleanupCalls >= 1 => fs' = fs)]_vars

\* C3 amended: on macOS a call with an application name that is not empty
\* after trimming and a tool command returns a command with a cleanup; the
\* cleanup removes the temporary directory with the script in it; a second
\* invocation, with the directory gone, throws nothing and leaves the file
\* system as the first one left it.
C3_CleanupIdempotent ==
  [][/\ (IsBuildStep /\ OnMac /\ ~Blank(call'.app) /\ call'.tool.present)
          => (~result'.null /\ result'.cleanup.present
                /\ result'.cleanup.dir \in fs'.dirs)
     /\ IsCleanupStep
          => (/\ ~cleanupThrew'
              /\ result.cleanup.dir \notin fs'.dirs
              /\ \A p \in DOMAIN fs'.files :
                   ~Occurs(result.cleanup.dir \o <<"/">>, p)
              /\ cleanupCalls >= 1 => fs' = fs)]_vars

C3_Witness ==
  /\ call.made
  /\ OnMac
  /\ call.tool.present
  /\ result.cleanup.present
  /\ cleanupCalls = 2
  /\ ~cleanupThrew
  /\ result.cleanup.dir \notin fs.dirs

\* C4: on Windows the template is selected by a case-insensitive match of
\* the trimmed application name: cmd / cmd.exe give
\* start "" cmd.exe /K "cd /d "<dir>"[ && tool]"; powershell / powershell.exe
\* give start "" powershell -NoExit -Command "Set-Location '<dir, ' doubled>';[ tool]";
\* wt / wt.exe give start "" wt.exe new-tab cmd /K with the cmd payload; any
\* other name gives the cmd.exe /K template with a tool command and exactly
\* start "" "<app>" without one.  (Names that are empty after trimming give
\* no command at all, see C1.)
C4_Payload ==
  ClaimCdD \o call.dir \o <<"\"">>
    \o (IF call.tool.present THEN ClaimAnd \o call.tool.v ELSE <<>>)
    \o <<"\"">>

C4_IsCmd ==
  \/ SameIgnoringCase(Core(call.app), <<"c", "m", "d">>)
  \/ SameIgnoringCase(Core(call.app), <<"c", "m", "d", ".", "e", "x", "e">>)

C4_IsPowershell ==
  \/ SameIgnoringCase(Core(call.app),
                      <<"p", "o", "w", "e", "r", "s", "h", "e", "l", "l">>)
  \/ SameIgnoringCase(Core(call.app),
                      <<"p", "o", "w", "e", "r", "s", "h", "e", "l", "l",
                        ".", "e", "x", "e">>)

C4_IsWt ==
  \/ SameIgnoringCase(Core(call.app), <<"w", "t">>)
  \/ SameIgnoringCase(Core(call.app), <<"w", "t", ".", "e", "x", "e">>)

C4_WindowsTemplates ==
  (call.made /\ OnWindows /\ ~Blank(call.app)) =>
    /\ ~result.null
    /\ result.command =
         IF C4_IsCmd THEN ClaimCmdK \o C4_Payload
         ELSE IF C4_IsPowershell
         THEN ClaimPowershell \o ApostropheDoubled(call.dir) \o ClaimPsClose
                \o (IF call.tool.present THEN <<" ">> \o call.tool.v ELSE <<>>)
                \o <<"\"">>
         ELSE IF C4_IsWt THEN ClaimWt \o C4_Payload
         ELSE IF call.tool.present THEN ClaimCmdK \o C4_Payload
         ELSE ClaimStart \o Core(call.app) \o <<"\"">>

C4_Witness ==
  /\ call.made
  /\ OnWindows
  /\ call.app = AppCmdExeUpper
  /\ call.dir = DirQuoted
  /\ call.tool = Tool(LitClaude)
  /\ result.command = ClaimCmdK \o C4_Payload

\* C5: on a Linux/BSD desktop a call without tool command returns the
\* trimmed application name as the entire command; with a tool command the
\* fragment cd "$PWD"; <tool>; exec "$SHELL" is wrapped as
\* <app> -- bash -lc "..." when the name contains gnome-terminal, and as
\* <app> -e bash -lc "..." when it does not (konsole and every other name).
C5_Fragment == ClaimCdPwd \o call.tool.v \o ClaimExecTail

C6_ScriptLines(content) ==
  LET lines == SplitLines(content)
  IN /\ Len(lines) = 4
     /\ SubSeq(lines[1], 1, 2) = ClaimShebang
     /\ lines[2] = ClaimCd \o QuoteEscaped(call.dir) \o <<"\"">>
     /\ lines[3] = call.tool.v
     /\ lines[4] = ClaimExec

C6_MacScript ==
  (call.made /\ OnMac /\ ~Blank(call.app) /\ call.tool.present
     /\ cleanupCalls = 0) =>
    /\ ~result.null
    /\ \E path \in DOMAIN fs.files :
         /\ result.command =
              ClaimOpen \o QuoteEscaped(Core(call.app)) \o <<"\"", " ", "\"">>
                \o path \o <<"\"">>
         /\ C6_ScriptLines(fs.files[path])
         /\ Occurs(result.cleanup.dir \o <<"/">>, path)

C6_Witness ==
  /\ call.made
  /\ OnMac
  /\ call.app = AppQuoted
  /\ call.dir = DirQuoted
  /\ call.tool = Tool(LitClaude)
  /\ cleanupCalls = 0
  /\ \E path \in DOMAIN fs.files : C6_ScriptLines(fs.files[path])

----------------------------------------------------------------------------
(* C7 .. C10: palette registration, target registry, settings model *)

\* C7: after onload and after any sequence of settings changes, each
\* followed by saveSettings (overlapping saves included), once the last
\* refreshCommands has run the commands registered in the palette host are
\* exactly the open-terminal command plus the optional targets whose flag
\* is true: none is missing and none stays for a flag that is false
\* (the host keeps one command per identifier).
C7_Expected ==
  {FullId("open-terminal")}
    \cup {FullId(id) : id \in {i \in OptionalIds : settings[FlagOf(i)]}}

C7_PaletteMatchesSettings ==
  (phase = "loaded" /\ pendingSaves = 0) => palette = C7_Expected

\* C8: isTargetEnabled returns true for the open-terminal target under
\* every settings configuration, and for each optional target it returns
\* the value of that target's own flag, whatever the other flags are.
C8_TargetEnabledIffFlag ==
  (fn = "isTargetEnabled" /\ ret.done) =>
    IF arg.target.id = "open-terminal" THEN ret.v = TRUE
    ELSE ret.v = arg.settings[FlagOf(arg.target.id)]

C8_Witness ==
  /\ fn = "isTargetEnabled"
  /\ ret.done
  /\ arg.target.id = "open-cursor"
  /\ ~arg.settings.enableCursor
  /\ arg.settings.enableClaude
  /\ arg.settings.enableCodex
  /\ arg.settings.enableGemini
  /\ arg.settings.enableOpencode
  /\ ret.v = FALSE

\* C9: normalizeSettings is idempotent: for every stored value x (null,
\* undefined, a non-object, an object with a legacy bare-string terminalApp,
\* with a per-platform mapping or with wrong-typed fields) and on every
\* platform category, normalizeSettings(normalizeSettings(x)) equals
\* normalizeSettings(x) field by field.
C9_NormalizeIdempotent ==
  (fn = "normalizeSettings" /\ ret.done) =>
    \A k \in DOMAIN ret.v :
      normalizeSettings(platform, asUnknown(ret.v))[k] = ret.v[k]

C9_Witness ==
  /\ fn = "normalizeSettings"
  /\ ret.done
  /\ OnMac
  /\ field(arg.stored, "terminalApp") = JsString(AppITermPadded)
  /\ field(arg.stored, "enableCodex") = JsString(<<"t", "r", "u", "e">>)
  /\ ret.v.terminalApp = [k \in {"macos"} |-> Core(AppITermPadded)]

\* C10: setCurrentTerminalApp writes only the slot of the platform family
\* that is running, to the trimmed value, and leaves every other slot as it
\* was; getCurrentTerminalApp reads only that slot: mappings that agree on
\* it give the same result.
C10_CurrentSlot ==
  IF OnMac THEN "macos"
  ELSE IF OnWindows THEN "win"
  ELSE IF OnUnix /\ platform.isLinux THEN "linux"
  ELSE "no slot"

C10_SameSlot(a, b, k) ==
  /\ k \in DOMAIN a <=> k \in DOMAIN b
  /\ k \in DOMAIN a => a[k] = b[k]

C10_OnlyCurrentSlot ==
  /\ (fn = "setCurrentTerminalApp" /\ ret.done) =>
       /\ \A k \in DesktopPlatforms \ {C10_CurrentSlot} :
            C10_SameSlot(ret.v, arg.terminalApp, k)
       /\ DOMAIN ret.v \subseteq DesktopPlatforms
       /\ C10_CurrentSlot \in DesktopPlatforms =>
            /\ C10_CurrentSlot \in DOMAIN ret.v
            /\ ret.v[C10_CurrentSlot] = Core(arg.value)
  /\ (fn = "getCurrentTerminalApp" /\ ret.done) =>
       \A t \in TerminalAppValues :
         C10_SameSlot(t, arg.terminalApp, C10_CurrentSlot) =>
           getCurrentTerminalApp(platform, t) = ret.v

C10_Witness ==
  /\ fn = "setCurrentTerminalApp"
  /\ ret.done
  /\ OnWindows
  /\ arg.value = AppITermPadded
  /\ DOMAIN arg.terminalApp = {"macos", "linux", "win"}
  /\ arg.terminalApp["win"] = AppAlacritty
  /\ ret.v["win"] = Core(AppITermPadded)
  /\ ret.v["macos"] = arg.terminalApp["macos"]

\* the stored terminalApp field; a stored value that is no object has none
StoredTerminalApp ==
  IF arg.stored.t \in {"object", "array"}
  THEN field(arg.stored, "terminalApp")
  ELSE JsUndefined

\* the default mapping: the current platform's default application, if the
\* platform has a slot
DefaultMapping ==
  IF C10_CurrentSlot \in DesktopPlatforms
  THEN [k \in {C10_CurrentSlot} |-> defaultTerminalApp(platform)]
  ELSE [k \in {} |-> <<>>]

\* C11: normalizeSettings turns a stored terminalApp that is a bare string
\* into a mapping with the current platform's slot only, set to the trimmed
\* string (where the platform has no slot, the default mapping, which is
\* empty there); a stored mapping (any object, an array included) gives each
\* platform slot independently: the trimmed string if the slot is a string,
\* no slot otherwise; anything else (absent, null, a number) gives the
\* default mapping.
C11_TerminalAppMigration ==
  (fn = "normalizeSettings" /\ ret.done) =>
    /\ StoredTerminalApp.t = "string" =>
         /\ DOMAIN ret.v.terminalApp \subseteq {C10_CurrentSlot}
         /\ C10_CurrentSlot \in DesktopPlatforms =>
              /\ C10_CurrentSlot \in DOMAIN ret.v.terminalApp
              /\ ret.v.terminalApp[C10_CurrentSlot] = Core(StoredTerminalApp.s)
         /\ C10_CurrentSlot \notin DesktopPlatforms =>
              ret.v.terminalApp = DefaultMapping
    /\ StoredTerminalApp.t \in {"object", "array"} =>
         /\ DOMAIN ret.v.terminalApp \subseteq DesktopPlatforms
         /\ \A k \in DesktopPlatforms :
              IF field(StoredTerminalApp, k).t = "string"
              THEN /\ k \in DOMAIN ret.v.terminalApp
                   /\ ret.v.terminalApp[k] = Core(field(StoredTerminalApp, k).s)
              ELSE k \notin DOMAIN ret.v.terminalApp
    /\ StoredTerminalApp.t \notin {"string", "object", "array"} =>
         ret.v.terminalApp = DefaultMapping

C11_Witness ==
  /\ fn = "normalizeSettings"
  /\ ret.done
  /\ OnWindows
  /\ StoredTerminalApp = JsString(AppITermPadded)
  /\ DOMAIN ret.v.terminalApp = {"win"}
  /\ ret.v.terminalApp["win"] = Core(AppITermPadded)

\* C12: normalizeSettings returns for every stored value; each boolean flag
\* of the result is the stored field when that field is present and a
\* boolean, and false otherwise; a stored value that is missing, null or no
\* object gives exactly the default settings: every flag false and the
\* default mapping with the current platform's default application.
C12_FlagsReadOrDefault ==
  (fn = "normalizeSettings" /\ ret.done) =>
    /\ \A k \in FlagKeys :
         ret.v[k] = IF /\ arg.stored.t = "object"
                       /\ k \in DOMAIN arg.stored.o
                       /\ arg.stored.o[k].t = "boolean"
                    THEN arg.stored.o[k].b
                    ELSE FALSE
    /\ arg.stored.t # "object" =>
         /\ ret.v.terminalApp = DefaultMapping
         /\ \A k \in FlagKeys : ret.v[k] = FALSE
         /\ DOMAIN ret.v = FlagKeys \cup {"terminalApp"}

C12_Witness ==
  /\ fn = "normalizeSettings"
  /\ ret.done
  /\ OnMac
  /\ arg.stored.t = "object"
  /\ "enableCodex" \in DOMAIN arg.stored.o
  /\ arg.stored.o["enableCodex"] = JsString(<<"t", "r", "u", "e">>)
  /\ "enableGemini" \in DOMAIN arg.stored.o
  /\ arg.stored.o["enableGemini"] = JsBoolean(TRUE)
  /\ ret.v.enableGemini
  /\ ~ret.v.enableCodex

\* positions of the entries of one kind in the trace of launch i
At(i, kind) ==
  {k \in 1..Len(launches[i].events) : launches[i].events[k].kind = kind}

\* launch i showed a notice whose text starts with lead and names its label
Noticed(i, lead) ==
  \E k \in At(i, "Notice") :
    LET text == launches[i].events[k].text
    IN /\ text[1] = lead
       /\ \E n \in 2..Len(text) : text[n] = launches[i].label

\* launch i got a command with a cleanup
HasCleanup(i) ==
  ~launches[i].command.null /\ launches[i].command.cleanup.present

\* C13: on Windows with the WSL toggle set, the command of every launch goes
\* through wsl and differs from the command the same settings give with the
\* toggle unset.
C13_WslHonored ==
  \A i \in 1..Len(launches) :
    (OnWindows /\ settings.enableWslOnWindows /\ ~launches[i].command.null) =>
      /\ Occurs(<<"w", "s", "l">>, launches[i].command.command)
      /\ launches[i].command.command #
           composeLaunchCommand(
             platform, adapter,
             [settings EXCEPT !.enableWslOnWindows = FALSE], logger, EmptyFs,
             <<"a">>, TargetOf(launches[i].id).toolCommand).cmd.command

\* the traces of all launches are well-formed with respect to the cleanup
C14_Order ==
  \A i \in 1..Len(launches) :
    /\ Cardinality(At(i, "setTimeout")) = IF HasCleanup(i) THEN 1 ELSE 0
    /\ Cardinality(At(i, "cleanup")) <= 1
    /\ \A k \in At(i, "setTimeout") : \E j \in At(i, "spawn") : j < k
    /\ \A k \in At(i, "cleanup") :
         /\ \E j \in At(i, "setTimeout") : j < k
         /\ \E j \in At(i, "spawn") : j < k

\* C14: a launch whose command carries a cleanup sets the timer exactly
\* once, after the command was handed to spawn, also when spawn threw; a
\* launch without a cleanup sets none; the cleanup runs at most once and
\* only after the spawn and the timer of its own launch; and once the timer
\* is set the cleanup eventually runs.
C14_CleanupScheduledOnce ==
  /\ []C14_Order
  /\ \A i \in 1..MaxLaunches :
       (i <= Len(launches) /\ At(i, "setTimeout") # {})
         ~> (i <= Len(launches) /\ At(i, "cleanup") # {})

C14_Witness ==
  \E i \in 1..Len(launches) :
    /\ HasCleanup(i)
    /\ launches[i].outcome = "throws"
    /\ \E a \in At(i, "spawn"), b \in At(i, "setTimeout"),
          c \in At(i, "cleanup") : a < b /\ b < c

\* the script of launch i: launch.command in the directory of its cleanup
C15_Script(i) ==
  launches[i].command.cleanup.dir
    \o <<"/", "l", "a", "u", "n", "c", "h", ".", "c", "o", "m", "m", "a", "n", "d">>

\* launch i has a script that its own cleanup has not removed yet
C15_Live(i) == HasCleanup(i) /\ At(i, "cleanup") = {}

\* the scripts of the launches whose cleanup has not run exist, in
\* directories of their own
C15_ScriptsKept ==
  \A i \in 1..Len(launches) :
    C15_Live(i) =>
      /\ launches[i].command.cleanup.dir \in fs.dirs
      /\ C15_Script(i) \in DOMAIN fs.files
      /\ \A j \in 1..Len(launches) :
           (j # i /\ C15_Live(j)) =>
             launches[j].command.cleanup.dir # launches[i].command.cleanup.dir

\* a step that adds a launch with a script made its directory anew and
\* leaves the script in place
C15_FreshDirectory ==
  Len(launches') > Len(launches) =>
    LET dir == launches'[Len(launches')].command.cleanup.dir
    IN launches'[Len(launches')].command.cleanup.present =>
         /\ dir \notin fs.dirs
         /\ dir \in fs'.dirs
         /\ \E path \in DOMAIN fs'.files : Occurs(dir \o <<"/">>, path)

\* C15: on macOS every tool launch gets a directory that did not exist
\* before, with its script in it when the command is handed to spawn; while
\* the cleanup of a launch has not run its script exists, whatever other
\* launches and their cleanup timers did, and no other such launch uses the
\* same directory.
C15_OwnDirectory ==
  /\ []C15_ScriptsKept
  /\ [][C15_FreshDirectory]_vars

C15_Witness ==
  /\ OnMac
  /\ Len(launches) = 2
  /\ HasCleanup(1)
  /\ HasCleanup(2)
  /\ At(1, "cleanup") # {}
  /\ C15_Live(2)
  /\ C15_Script(2) \in DOMAIN fs.files

\* the application name the open commands are composed with is blank
C16_NoApplication ==
  \/ C10_CurrentSlot \notin DOMAIN settings.terminalApp
  \/ Blank(settings.terminalApp[C10_CurrentSlot])

\* C16: a launch composed with a blank application name, off the desktop or
\* without a file-system adapter gets no command; a launch without a command
\* shows the notice naming its target and nothing else: no spawn, no timer;
\* and every temporary directory belongs to a launch that got a command.
C16_NullIsNoticeOnly ==
  /\ \A i \in 1..Len(launches) :
       /\ (C16_NoApplication \/ ~platform.isDesktopApp
             \/ ~adapter.isFileSystemAdapter) => launches[i].command.null
       /\ launches[i].command.null =>
            /\ Noticed(i, "Unable to run ")
            /\ At(i, "Notice") = {1}
            /\ Len(launches[i].events) = 1
            /\ launches[i].timer = "none"
  /\ \A dir \in fs.dirs :
       \E i \in 1..Len(launches) :
         HasCleanup(i) /\ launches[i].command.cleanup.dir = dir

C16_Witness ==
  /\ OnMac
  /\ adapter.isFileSystemAdapter
  /\ C16_NoApplication
  /\ Len(launches) = 2
  /\ launches[2].id = "open-claude"
  /\ launches[2].command.null
  /\ Noticed(2, "Unable to run ")
  /\ fs = EmptyFs

\* C17: every launch hands at most one command to spawn, and nothing is
\* handed to spawn after an error was reported.
C17_NoRetry ==
  \A i \in 1..Len(launches) :
    /\ Cardinality(At(i, "spawn")) <= 1
    /\ \A e \in At(i, "console.error"), k \in At(i, "spawn") : k < e

C17_Witness ==
  \E i \in 1..Len(launches), j \in 1..Len(launches) :
    /\ launches[i].outcome = "throws"
    /\ Cardinality(At(i, "spawn")) = 1
    /\ launches[j].child = "errored"
    /\ Cardinality(At(j, "spawn")) = 1

\* C18: when spawn threw, and when the child reported an error, the launch
\* shows a notice naming its target; no launch lets an error escape to the
\* caller of the palette command.
C18_FailureNoticed ==
  \A i \in 1..Len(launches) :
    /\ ~launches[i].thrown
    /\ (At(i, "spawn") # {} /\ launches[i].outcome = "throws") =>
         Noticed(i, "Failed to run ")
    /\ launches[i].child = "errored" => Noticed(i, "Failed to run ")

C18_Witness ==
  /\ Len(launches) = 2
  /\ launches[1].outcome = "throws"
  /\ At(1, "spawn") # {}
  /\ Noticed(1, "Failed to run ")
  /\ launches[2].child = "errored"
  /\ Noticed(2, "Failed to run ")

\* the verbose-logging toggle as the settings store holds it
C19_VerboseToggle == field(stored, "enableLogging") = JsBoolean(TRUE)

\* C19: while the logger's flag is false no launch wrote to console.debug,
\* and once the plugin is loaded the logger's flag equals the
\* verbose-logging toggle of the settings, also after every settings change
\* and save.
C19_LoggerFollowsToggle ==
  /\ ~logger.enabled =>
       \A i \in 1..Len(launches) : At(i, "console.debug") = {}
  /\ phase = "loaded" => logger.enabled = C19_VerboseToggle

\* C20: on every desktop platform the name saved with setCurrentTerminalApp
\* is the name getCurrentTerminalApp reads back, trimmed, and if it is not
\* blank the open-terminal command composed from the saved mapping is not
\* null.
C20_SlotAgreesWithAlgorithm ==
  (fn = "setCurrentTerminalApp" /\ ret.done /\ platform.isDesktopApp) =>
    /\ getCurrentTerminalApp(platform, ret.v) = Core(arg.value)
    /\ ~Blank(arg.value) =>
         ~composeLaunchCommand(
            platform, FileSystemAdapter(DirVault),
            [DEFAULT_SETTINGS(platform) EXCEPT !.terminalApp = ret.v],
            LoggerOff, EmptyFs, <<"a">>, NoTool).cmd.null

====
